---- MODULE Spec2Model ----
(***************************************************************************)
(* Strategy lifecycle and monitoring engine of the Supra AutoFi agent.     *)
(*                                                                         *)
(* The repository holds two agent classes named SupraSuperAgent: the one   *)
(* of src/src/super-agent.ts (an EventEmitter, with address validation,    *)
(* notifications and counters) and the one of src/src/index.ts lines       *)
(* 216-829 (on-chain cancellation, three-tier analysis).  The variable     *)
(* impl says which class was constructed; every operation is translated    *)
(* from the class impl names.                                              *)
(*                                                                         *)
(* The runtime is single-threaded and cooperative: an action is one        *)
(* synchronous segment of a handler, from one suspension point (await) to  *)
(* the next.  Map values are object references, so the store maps keys to  *)
(* references into heap.                                                   *)
(***************************************************************************)
EXTENDS Integers, Sequences, FiniteSets, TLC

VARIABLES
    impl,                    \* which SupraSuperAgent class was constructed
    now,                     \* Date.now()
    heap,                    \* the AutomationStrategy objects built so far
    strategies,              \* the Map: <<key, object reference>> in insertion order
    totalStrategiesCreated,  \* performanceMetrics.totalStrategiesCreated
    tasks,                   \* the async operations suspended at an await, oldest first
    emits,                   \* events emitted by the last step
    rpc,                     \* what the blockchain collaborator answered in the last step
    ret,                     \* what the last step returned to its caller
    probe,                   \* input and output of a pure function being evaluated
    conversationHistory,     \* the roles of the messages kept for the language model
    chats,                   \* the chat calls suspended at an await
    reply                    \* what chat returned in the last step

\* the state of the conversation layer
chatVars == <<conversationHistory, chats, reply>>

vars == <<impl, now, heap, strategies, totalStrategiesCreated,
          tasks, emits, rpc, ret, probe, chatVars>>

(***************************************************************************)
(* Bounds of the model.                                                    *)
(***************************************************************************)
\* Date.now() runs over 0..MaxClock
MaxClock == 1
\* at most MaxStrategies record objects are ever built
MaxStrategies == 2
\* async operations (dispatched calls, monitoring passes) suspended at the same time
MaxInFlight == 2
\* a status check begins only while fewer than MaxBesideStatus calls are suspended
MaxBesideStatus == 1
\* Math.random() is drawn from k / RandSteps, k in 0..RandSteps-1
RandSteps == 1
\* address strings of the validation check carry up to HexLen + ExtraLen digits
ExtraLen == 1
\* balances of the health check lie within Spread of 0, threshold, 2 x threshold
Spread == 12

(***************************************************************************)
(* Program constants.                                                      *)
(***************************************************************************)
HexLen == 64
\* balances of monitored targets are in micro-units, as in the code
Threshold == 600000000
RandomBalanceRange == 100000000
RandomTaskRange == 10000
\* the sender's balance, the fee estimate and the fee cap are in whole SUPRA
\* (1 SUPRA = 1000000 micro-units): TLC's integers end at 2^31
BufferAmount == 100
DefaultFeeCapSuper == 50000
DefaultFeeCapIndex == 144
FeeMultiplier == 3
TaskDigits == 8

Impls == {"super-agent", "index"}

(***************************************************************************)
(* Strings are sequences of one-character strings.                         *)
(***************************************************************************)
Rep(c, n) == [i \in 1..n |-> c]

HexClass == {"0", "1", "2", "3", "4", "5", "6", "7", "8", "9",
             "a", "b", "c", "d", "e", "f", "A", "B", "C", "D", "E", "F"}

\* the characters the model draws address strings from
Alphabet == {"0", "x", "X", "9", "a", "f", "A", "F", "g", "G", " "}

(***************************************************************************)
(* isValidAddress: /^0x[a-fA-F0-9]{64}$/.test(address), as the matcher     *)
(* runs it: a position is threaded through the pattern's items, 0 meaning  *)
(* that the match has failed.                                              *)
(***************************************************************************)
MatchLiteral(s, i, c) ==
    IF i >= 1 /\ i <= Len(s) /\ s[i] = c THEN i + 1 ELSE 0

RECURSIVE MatchClassTimes(_, _, _)
MatchClassTimes(s, i, n) ==
    IF i = 0 THEN 0
    ELSE IF n = 0 THEN i
    ELSE IF i <= Len(s) /\ s[i] \in HexClass THEN MatchClassTimes(s, i + 1, n - 1)
    ELSE 0

\* a pattern without its end anchor
BadMatchEnd(s, i) == i # 0

\* $ without the m flag: the end of the input
MatchEnd(s, i) == i = Len(s) + 1

isValidAddress(s) ==
    LET p1 == MatchLiteral(s, 1, "0")
        p2 == MatchLiteral(s, p1, "x")
        p3 == MatchClassTimes(s, p2, HexLen)
    IN  MatchEnd(s, p3)

(***************************************************************************)
(* Target addresses the operations are called with, by name, and the text  *)
(* each name stands for.                                                   *)
(***************************************************************************)
Targets == {"walletA", "0x123"}

AddrText(a) ==
    CASE a = "walletA" -> <<"0", "x">> \o Rep("1", HexLen)
      [] OTHER         -> <<"0", "x", "1", "2", "3">>

(***************************************************************************)
(* Health evaluation.                                                      *)
(***************************************************************************)
\* super-agent.ts calculateHealthStatus
calculateHealthStatus(balance) ==
    [status      |-> IF balance >= Threshold THEN "healthy" ELSE "needs_topup",
     urgency     |-> "none",
     willTrigger |-> balance < Threshold]

\* index.ts analyzeStrategy
analyzeStrategy(currentBalance) ==
    [status      |-> IF currentBalance < Threshold THEN "below_threshold"
                     ELSE IF currentBalance < Threshold * 2 THEN "approaching_threshold"
                     ELSE "healthy",
     urgency     |-> IF currentBalance < Threshold THEN "high"
                     ELSE IF currentBalance < Threshold * 2 THEN "medium"
                     ELSE "low",
     willTrigger |-> currentBalance < Threshold]

\* the evaluation checkStrategyStatus uses in each class
HealthOf(im, balance) ==
    IF im = "super-agent" THEN calculateHealthStatus(balance) ELSE analyzeStrategy(balance)

(***************************************************************************)
(* The blockchain collaborator's answers to one deployRealAutomation call. *)
(*   acct  getAccountInfo answered                                         *)
(*   hex   new HexString(target).toUint8Array() did not throw              *)
(*   fee   estimate_automation_fee: -2 threw, -1 empty, else the estimate  *)
(*   bal   getAccountCoinBalance of the sender: -2 threw, else the balance *)
(*   ser   the registration payload was serialized                         *)
(*   send  sendTxUsingSerializedRawTransaction: "fail" threw, else the     *)
(*         shape of the result: the field that holds the hash, "string"    *)
(*         for a bare 0x string, "none" for a result without a hash        *)
(*   hash  the transaction hash, as the sequence of its hex digits' values *)
(***************************************************************************)
SendShapes == {"fail", "hash", "txHash", "transaction_hash", "string", "none"}

TxHashes == {<<10, 11, 0, 0, 0, 0, 0, 0, 0, 7>>}

\* the estimate the fee query answers with, in whole SUPRA
QuotedFee == 1

FeeAnswers == {-2, -1, QuotedFee}

DeployEnvs(wellFormed) ==
    [acct : BOOLEAN,
     hex  : IF wellFormed THEN {TRUE} ELSE BOOLEAN,
     fee  : FeeAnswers,
     bal  : {-2} \cup {DefaultFeeCapSuper + BufferAmount - 1,
                       DefaultFeeCapSuper + BufferAmount,
                       FeeMultiplier * QuotedFee + BufferAmount - 1,
                       FeeMultiplier * QuotedFee + BufferAmount},
     ser  : BOOLEAN,
     send : SendShapes,
     hash : TxHashes]

\* super-agent.ts extractTransactionHash: TRUE when a hash is found
extractTransactionHash(shape) ==
    shape \in {"hash", "txHash", "transaction_hash", "string"}

\* index.ts: (result as any).txHash || (result as any).hash
extractTransactionHashIndex(shape) ==
    shape \in {"txHash", "hash"}

\* the fee cap after the estimate query
automationFeeCap(im, fee) ==
    IF fee >= 1
    THEN IF im = "super-agent" THEN fee * FeeMultiplier ELSE fee
    ELSE IF im = "super-agent" THEN DefaultFeeCapSuper ELSE DefaultFeeCapIndex

\* super-agent.ts validateAccountBalance: "ok", or the error it throws
validateAccountBalance(bal, requiredFee) ==
    IF bal = -2 THEN "balance_query"
    ELSE IF bal < requiredFee + BufferAmount THEN "insufficient"
    ELSE "ok"

\* parseInt(digits, 16)
RECURSIVE ParseHex(_)
ParseHex(d) ==
    IF Len(d) = 0 THEN 0 ELSE 16 * ParseHex(SubSeq(d, 1, Len(d) - 1)) + d[Len(d)]

\* parseInt(txHash.slice(-8), 16)
TaskIdOfHash(h) ==
    ParseHex(SubSeq(h, IF Len(h) > TaskDigits THEN Len(h) - TaskDigits + 1 ELSE 1, Len(h)))

(***************************************************************************)
(* deployRealAutomation: the outcome of one real deployment attempt.       *)
(*   err        "none" when it returned, else why it threw                 *)
(*   submitted  the registration transaction was accepted by the chain     *)
(***************************************************************************)
deployRealAutomation(im, env) ==
    LET cap   == automationFeeCap(im, env.fee)
        valid == IF im = "super-agent" THEN validateAccountBalance(env.bal, cap) ELSE "ok"
        found == IF im = "super-agent" THEN extractTransactionHash(env.send)
                 ELSE extractTransactionHashIndex(env.send)
        err   == IF ~env.acct THEN "account"
                 ELSE IF ~env.hex THEN "hex"
                 ELSE IF valid # "ok" THEN valid
                 ELSE IF ~env.ser THEN "serialize"
                 ELSE IF env.send = "fail" THEN "send"
                 ELSE IF ~found THEN "no_hash"
                 ELSE "none"
    IN  [err       |-> err,
         submitted |-> err \in {"no_hash", "none"},
         taskId    |-> IF err = "none" THEN TaskIdOfHash(env.hash) ELSE -1]

\* a draw that is not scaled down to the range
BadRandomBelow(k, range) == Threshold + (k * range) \div RandSteps

\* Math.floor(Math.random() * range), Math.random() = k / RandSteps
RandomBelow(k, range) == (k * range) \div RandSteps

RandomDraws == 0..(RandSteps - 1)

\* the targets that pass the format check
ValidTargets == {a \in Targets : isValidAddress(AddrText(a))}

\* what one deployment attempt can come to, over every answer of the
\* collaborator, for a target that is well-formed hex and for one that is not
DeployResultsOf ==
    [im \in Impls, wellFormed \in BOOLEAN |->
        {deployRealAutomation(im, env) : env \in DeployEnvs(wellFormed)}]

DeployResults(im, target) == DeployResultsOf[im, (target \in ValidTargets)]

AllDeployResults == UNION {DeployResultsOf[im, b] : im \in Impls, b \in BOOLEAN}

(***************************************************************************)
(* The store: a Map from strategy id to object reference.  The key of      *)
(* `topup_${Date.now()}` is modelled by the clock value it was built from. *)
(***************************************************************************)
Keys == 0..MaxClock

\* the position of key in the Map's entry list, 0 when it has none
KeyIndex(m, key) ==
    IF \E i \in 1..Len(m) : m[i][1] = key
    THEN CHOOSE i \in 1..Len(m) : m[i][1] = key
    ELSE 0

\* Map.get: the object reference, 0 for undefined
MapGet(m, key) == IF KeyIndex(m, key) = 0 THEN 0 ELSE m[KeyIndex(m, key)][2]

\* Map.set: a new key is appended, an existing key keeps its position
MapSet(m, key, obj) ==
    IF KeyIndex(m, key) = 0
    THEN Append(m, <<key, obj>>)
    ELSE [m EXCEPT ![KeyIndex(m, key)] = <<key, obj>>]

HasKey(key) == KeyIndex(strategies, key) # 0

\* the record the Map holds under key (only where the key is present)
Stored(key) == heap[MapGet(strategies, key)]

\* the first entry at or after position pos whose object is active, 0 if none
NextActive(m, h, pos) ==
    IF \E i \in pos..Len(m) : h[m[i][2]].isActive
    THEN CHOOSE i \in pos..Len(m) :
            /\ h[m[i][2]].isActive
            /\ \A j \in pos..(i - 1) : ~h[m[j][2]].isActive
    ELSE 0

(***************************************************************************)
(* Shapes of the state.                                                    *)
(***************************************************************************)
NoHealth == [status |-> "none", urgency |-> "none", willTrigger |-> FALSE]

\* a suspended operation: what it is, its arguments and its local variables.
\* One field is not in the program and records what a monitoring pass is
\* answerable for: owed holds the ids that were active when the pass started
\* and that it has neither visited nor seen cancelled since.
Task(op, target, key, obj, pos, count) ==
    [op |-> op, target |-> target, key |-> key, obj |-> obj, pos |-> pos, count |-> count,
     owed |-> {}]

\* a monitoring pass suspended at the balance query of the entry at pos
PassTask(key, obj, pos, owed) ==
    [Task("pass", "", key, obj, pos, 0) EXCEPT !.owed = owed]

NoRpc == [kind |-> "none", ok |-> TRUE, balance |-> -1, submitted |-> FALSE,
          err |-> "none", taskId |-> -1]

NoRet == [op |-> "none", key |-> -1, success |-> FALSE, mode |-> "none",
          message |-> "none", note |-> FALSE, taskId |-> -1, lastChecked |-> -1,
          health |-> NoHealth, list |-> <<>>, count |-> 0]

NoProbe == [kind |-> "none", text |-> <<>>, balance |-> 0, valid |-> FALSE,
            health |-> NoHealth]

NoReply == [kind |-> "none", cause |-> "none", raised |-> FALSE]

\* the suspended operations, by position
Running == 1..Len(tasks)

\* the sequence without its i-th element
Remove(seq, i) == SubSeq(seq, 1, i - 1) \o SubSeq(seq, i + 1, Len(seq))

(***************************************************************************)
(* The suspended operations form a bag: any of them may resume next.  The  *)
(* bag is kept as a sequence in the order of Rank, so that two states that *)
(* differ only in the order of the suspended operations are one state.     *)
(***************************************************************************)
OpRank(op) ==
    CASE op = "create" -> 1 [] op = "cancel" -> 2 [] op = "check" -> 3
      [] op = "checkAll" -> 4 [] OTHER -> 5

TargetRank(a) == CASE a = "walletA" -> 1 [] a = "0x123" -> 2 [] OTHER -> 0

Rank(t) ==
    ((((OpRank(t.op) * 4 + TargetRank(t.target)) * 16 + (t.key + 1)) * 16 + t.obj) * 16
        + t.pos) * 16 + t.count

Suspend(seq, t) ==
    LET n == Cardinality({j \in 1..Len(seq) : Rank(seq[j]) <= Rank(t)})
    IN  SubSeq(seq, 1, n) \o <<t>> \o SubSeq(seq, n + 1, Len(seq))

\* record objects that creates in flight are still to build
PendingCreates == Cardinality({i \in Running : tasks[i].op = "create"})

\* the ids whose entry holds an active record
ActiveKeys ==
    {strategies[j][1] : j \in {n \in 1..Len(strategies) : heap[strategies[n][2]].isActive}}

\* the suspended operations after the record of id key was switched off
Excused(seq, key) ==
    [j \in 1..Len(seq) |-> [seq[j] EXCEPT !.owed = @ \ {key}]]

\* another operation may be started
CanStart == Len(tasks) < MaxInFlight

\* a status check (of one strategy or of all) may be started
CanStartStatus == Len(tasks) < MaxBesideStatus

Init ==
    /\ impl \in Impls
    /\ now = 0
    /\ heap = <<>>
    /\ strategies = <<>>
    /\ totalStrategiesCreated = 0
    /\ tasks = <<>>
    /\ emits = <<>>
    /\ rpc = NoRpc
    /\ ret = NoRet
    /\ probe = NoProbe
    /\ conversationHistory = <<"system">>
    /\ chats = <<>>
    /\ reply = NoReply

\* the clock advances between any two synchronous segments, or does not
Tick ==
    /\ now < MaxClock
    /\ now' = now + 1
    /\ emits' = <<>>
    /\ rpc' = NoRpc
    /\ ret' = NoRet
    /\ UNCHANGED <<impl, heap, strategies, totalStrategiesCreated, tasks, probe>>

(***************************************************************************)
(* createAutoTopupStrategy.                                                *)
(* First segment: the id is read from the clock and, in super-agent.ts,    *)
(* the address is validated; an invalid address returns at once.  The call *)
(* then waits on the collaborator (pre-deployment check, deployment).      *)
(***************************************************************************)
CreateStartWithin(target, room) ==
    /\ CanStart
    /\ Len(heap) + PendingCreates < room
    /\ IF impl = "super-agent" /\ target \notin ValidTargets
       THEN /\ emits' = <<[type |-> "strategyCreationFailed", key |-> now]>>
            /\ ret' = [NoRet EXCEPT !.op = "create", !.key = now,
                                     !.message = "Failed to create strategy"]
            /\ tasks' = tasks
       ELSE /\ emits' = <<>>
            /\ ret' = NoRet
            /\ tasks' = Suspend(tasks, Task("create", target, now, 0, 0, 0))
    /\ rpc' = NoRpc
    /\ UNCHANGED <<impl, now, heap, strategies, totalStrategiesCreated, probe>>

CreateStart(target) == CreateStartWithin(target, MaxStrategies)

\* a record that is built switched off
BadNewStrategy(key, target, taskId, description) ==
    [id |-> key, target |-> target, taskId |-> taskId, isActive |-> FALSE,
     createdAt |-> now, lastChecked |-> -1, description |-> description]

\* the record object each branch of create builds
NewStrategy(key, target, taskId, description) ==
    [id |-> key, target |-> target, taskId |-> taskId, isActive |-> TRUE,
     createdAt |-> now, lastChecked |-> -1, description |-> description]

\* a simulated record that is given no task id
BadSimulatedStrategy(key, target, k) ==
    NewStrategy(key, target, -1,
                IF impl = "super-agent" THEN "Simulated auto top-up" ELSE "Auto top-up")

\* the object built when the deployment attempt threw
SimulatedStrategy(key, target, k) ==
    NewStrategy(key, target, RandomBelow(k, RandomTaskRange),
                IF impl = "super-agent" THEN "Simulated auto top-up" ELSE "Auto top-up")

\* the object built when the deployment attempt returned
DeployedStrategy(key, target, taskId) ==
    NewStrategy(key, target, taskId,
                IF impl = "super-agent" THEN "Smart auto top-up" ELSE "Auto top-up")

(***************************************************************************)
(* Second segment of create: the deployment attempt has returned or        *)
(* thrown; the record is built and stored and the result returned.         *)
(***************************************************************************)
CreateFinish(i, dep, k) ==
    LET call == tasks[i]
        real == dep.err = "none"
        obj  == IF real THEN DeployedStrategy(call.key, call.target, dep.taskId)
                ELSE SimulatedStrategy(call.key, call.target, k)
    IN  /\ call.op = "create"
        /\ dep \in DeployResults(impl, call.target)
        /\ heap' = Append(heap, obj)
        /\ strategies' = MapSet(strategies, call.key, Len(heap) + 1)
        /\ totalStrategiesCreated' =
              IF real /\ impl = "super-agent"
              THEN totalStrategiesCreated + 1 ELSE totalStrategiesCreated
        /\ emits' = IF real /\ impl = "super-agent"
                    THEN <<[type |-> "strategyCreated", key |-> call.key]>> ELSE <<>>
        /\ rpc' = [NoRpc EXCEPT !.kind = "deploy", !.ok = real,
                                !.submitted = dep.submitted, !.err = dep.err]
        /\ ret' = [NoRet EXCEPT !.op = "create", !.key = call.key, !.success = TRUE,
                                !.mode = IF real THEN "REAL_DEPLOYMENT" ELSE "SIMULATION",
                                !.message = IF real THEN "deployed" ELSE "simulation mode",
                                !.note = ~real, !.taskId = obj.taskId]
        /\ tasks' = Remove(tasks, i)
        /\ UNCHANGED <<impl, now, probe>>

(***************************************************************************)
(* cancelStrategy.                                                         *)
(***************************************************************************)
\* a cancel that leaves the flag as it is
BadDeactivated(s) == s

\* the object after `strategy.isActive = false`
Deactivated(s) == [s EXCEPT !.isActive = FALSE]

\* a lookup failure that reports success
BadNotFound(op, key) ==
    [NoRet EXCEPT !.op = op, !.key = key, !.success = TRUE,
                  !.message = "Strategy not found"]

\* { success: false, message: "Strategy not found" }
NotFound(op, key) ==
    [NoRet EXCEPT !.op = op, !.key = key, !.message = "Strategy not found"]

\* super-agent.ts cancelStrategy: one synchronous segment, nothing on chain
Cancel(key) ==
    /\ impl = "super-agent"
    /\ IF ~HasKey(key)
       THEN /\ ret' = NotFound("cancel", key)
            /\ UNCHANGED <<heap, strategies, tasks>>
       ELSE LET obj == MapGet(strategies, key)
            IN  /\ heap' = [heap EXCEPT ![obj] = Deactivated(heap[obj])]
                /\ strategies' = MapSet(strategies, key, obj)
                /\ tasks' = Excused(tasks, key)
                /\ ret' = [NoRet EXCEPT !.op = "cancel", !.key = key, !.success = TRUE,
                                        !.message = "Successfully cancelled"]
    /\ emits' = <<>>
    /\ rpc' = NoRpc
    /\ UNCHANGED <<impl, now, totalStrategiesCreated, probe>>

\* index.ts cancelStrategy, first segment: the lookup
CancelStart(key) ==
    /\ impl = "index"
    /\ CanStart
    /\ IF ~HasKey(key)
       THEN /\ ret' = NotFound("cancel", key)
            /\ tasks' = tasks
       ELSE /\ ret' = NoRet
            /\ tasks' = Suspend(tasks,
                    Task("cancel", "", key, MapGet(strategies, key), 0, 0))
    /\ emits' = <<>>
    /\ rpc' = NoRpc
    /\ UNCHANGED <<impl, now, heap, strategies, totalStrategiesCreated, probe>>

\* the collaborator's answers to one cancelRealAutomation call
CancelEnvs == [acct : BOOLEAN, ser : BOOLEAN, send : BOOLEAN]

\* index.ts cancelRealAutomation: TRUE when the cancellation was submitted
cancelRealAutomation(env) == env.acct /\ env.ser /\ env.send

\* index.ts cancelStrategy, second segment: after cancelRealAutomation
CancelFinish(i, env) ==
    LET call == tasks[i]
        done == cancelRealAutomation(env)
    IN  /\ call.op = "cancel"
        /\ heap' = [heap EXCEPT ![call.obj] = Deactivated(heap[call.obj])]
        /\ strategies' = MapSet(strategies, call.key, call.obj)
        /\ rpc' = [NoRpc EXCEPT !.kind = "cancel", !.ok = done, !.submitted = done,
                                !.taskId = heap[call.obj].taskId]
        /\ ret' = [NoRet EXCEPT !.op = "cancel", !.key = call.key, !.success = TRUE,
                      !.mode = IF done THEN "REAL_CANCELLATION" ELSE "SIMULATION",
                      !.message = IF done THEN "Successfully cancelled"
                                  ELSE "Cancelled locally",
                      !.note = ~done]
        /\ tasks' = Excused(Remove(tasks, i), call.key)
        /\ emits' = <<>>
        /\ UNCHANGED <<impl, now, totalStrategiesCreated, probe>>

(***************************************************************************)
(* listActiveStrategies.                                                   *)
(***************************************************************************)
\* .filter(s => s.isActive)
IsListed(s) == s.isActive

\* Array.from(this.strategies.values()).filter(...).map(...)
listActiveStrategies ==
    LET Test(e) == IsListed(heap[e[2]])
        kept    == SelectSeq(strategies, Test)
    IN  [i \in 1..Len(kept) |->
            [id        |-> heap[kept[i][2]].id,
             target    |-> heap[kept[i][2]].target,
             createdAt |-> heap[kept[i][2]].createdAt]]

List ==
    /\ ret' = [NoRet EXCEPT !.op = "list", !.success = TRUE, !.list = listActiveStrategies]
    /\ emits' = <<>>
    /\ rpc' = NoRpc
    /\ UNCHANGED <<impl, now, heap, strategies, totalStrategiesCreated, tasks, probe>>

(***************************************************************************)
(* getAccountBalance: the collaborator's answer f is a balance (f.ok) or a *)
(* failure; a failure is replaced by Math.floor(Math.random() * 100000000).*)
(*   threw  the call raised to its caller                                  *)
(***************************************************************************)
BalancePool == {Threshold - 1, Threshold, Threshold * 2}

Fetches == [ok : {TRUE}, balance : BalancePool, k : {0}]
           \cup [ok : {FALSE}, balance : {-1}, k : RandomDraws]

\* a balance query that lets the collaborator's failure through
BadGetAccountBalance(f) ==
    [threw |-> ~f.ok, balance |-> f.balance]

getAccountBalance(f) ==
    [threw   |-> FALSE,
     balance |-> IF f.ok THEN f.balance ELSE RandomBelow(f.k, RandomBalanceRange)]

(***************************************************************************)
(* checkStrategyStatus(strategyId): lookup, balance query, evaluation.     *)
(* The returned copy carries lastChecked; the stored object is not written.*)
(***************************************************************************)
CheckStart(key) ==
    /\ CanStartStatus
    /\ IF ~HasKey(key)
       THEN /\ ret' = NotFound("check", key)
            /\ tasks' = tasks
       ELSE /\ ret' = NoRet
            /\ tasks' = Suspend(tasks,
                    Task("check", "", key, MapGet(strategies, key), 0, 0))
    /\ emits' = <<>>
    /\ rpc' = NoRpc
    /\ UNCHANGED <<impl, now, heap, strategies, totalStrategiesCreated, probe>>

CheckFinish(i, f) ==
    LET call == tasks[i]
        got  == getAccountBalance(f)
    IN  /\ call.op = "check"
        /\ rpc' = [NoRpc EXCEPT !.kind = "balance", !.ok = f.ok, !.balance = got.balance]
        /\ ret' = IF got.threw
                  THEN [NoRet EXCEPT !.op = "check", !.key = call.key,
                                     !.message = "Failed to check strategy status"]
                  ELSE [NoRet EXCEPT !.op = "check", !.key = call.key, !.success = TRUE,
                                     !.lastChecked = now,
                                     !.health = HealthOf(impl, got.balance)]
        /\ tasks' = Remove(tasks, i)
        /\ emits' = <<>>
        /\ UNCHANGED <<impl, now, heap, strategies, totalStrategiesCreated, probe>>

(***************************************************************************)
(* checkStrategyStatus(): the loop over the Map's entries, suspended at    *)
(* the balance query of each active record.  The iterator is live: it      *)
(* sees entries appended while the loop is suspended.                      *)
(***************************************************************************)
CheckAllStart ==
    LET i == NextActive(strategies, heap, 1)
    IN  /\ CanStartStatus
        /\ IF i = 0
           THEN /\ ret' = [NoRet EXCEPT !.op = "checkAll", !.success = TRUE]
                /\ tasks' = tasks
           ELSE /\ ret' = NoRet
                /\ tasks' = Suspend(tasks,
                        Task("checkAll", "", strategies[i][1], strategies[i][2], i, 0))
        /\ emits' = <<>>
        /\ rpc' = NoRpc
        /\ UNCHANGED <<impl, now, heap, strategies, totalStrategiesCreated, probe>>

CheckAllResume(i, f) ==
    LET call == tasks[i]
        got  == getAccountBalance(f)
        count == call.count + 1
        n    == NextActive(strategies, heap, call.pos + 1)
    IN  /\ call.op = "checkAll"
        /\ rpc' = [NoRpc EXCEPT !.kind = "balance", !.ok = f.ok, !.balance = got.balance]
        /\ IF got.threw
           THEN /\ ret' = [NoRet EXCEPT !.op = "checkAll",
                                        !.message = "Failed to check strategy status"]
                /\ tasks' = Remove(tasks, i)
           ELSE IF n = 0
           THEN /\ ret' = [NoRet EXCEPT !.op = "checkAll", !.success = TRUE,
                                        !.key = call.key, !.count = count,
                                        !.health = HealthOf(impl, got.balance)]
                /\ tasks' = Remove(tasks, i)
           ELSE /\ ret' = NoRet
                /\ tasks' = Suspend(Remove(tasks, i),
                        Task("checkAll", "", strategies[n][1], strategies[n][2], n, count))
        /\ emits' = <<>>
        /\ UNCHANGED <<impl, now, heap, strategies, totalStrategiesCreated, probe>>

(***************************************************************************)
(* runPeriodicCheck: the loop over the Map's entries, suspended at the     *)
(* balance query of each active record.  It is started by the CLI's timer  *)
(* and by its status command.                                              *)
(***************************************************************************)
PassStart ==
    LET i == NextActive(strategies, heap, 1)
    IN  /\ CanStart
        /\ tasks' = IF i = 0 THEN tasks
                    ELSE Suspend(tasks,
                           PassTask(strategies[i][1], strategies[i][2], i, ActiveKeys))
        /\ emits' = <<>>
        /\ rpc' = NoRpc
        /\ ret' = NoRet
        /\ UNCHANGED <<impl, now, heap, strategies, totalStrategiesCreated, probe>>

\* the object after `strategy.lastChecked = new Date()`
Refreshed(s) == [s EXCEPT !.lastChecked = now]

\* an alert test that also fires at exactly twice the threshold
BadIsLow(balance) == balance <= Threshold * 2

\* balance < threshold * 2n
IsLow(balance) == balance < Threshold * 2

PassResume(i, f) ==
    LET pass == tasks[i]
        got  == getAccountBalance(f)
        h2   == IF got.threw THEN heap
                ELSE [heap EXCEPT ![pass.obj] = Refreshed(heap[pass.obj])]
        m2   == IF got.threw THEN strategies
                ELSE MapSet(strategies, pass.key, pass.obj)
        n    == NextActive(m2, h2, pass.pos + 1)
    IN  /\ pass.op = "pass"
        /\ heap' = h2
        /\ strategies' = m2
        /\ emits' = IF got.threw
                    THEN IF impl = "super-agent"
                         THEN <<[type |-> "strategyError", key |-> pass.key]>> ELSE <<>>
                    ELSE IF impl = "super-agent" /\ IsLow(got.balance)
                         THEN <<[type |-> "lowBalanceAlert", key |-> pass.key]>> ELSE <<>>
        /\ rpc' = [NoRpc EXCEPT !.kind = "balance", !.ok = f.ok, !.balance = got.balance]
        /\ ret' = [NoRet EXCEPT !.op = "pass", !.key = pass.key]
        /\ tasks' = IF n = 0 THEN Remove(tasks, i)
                    ELSE Suspend(Remove(tasks, i),
                            PassTask(m2[n][1], m2[n][2], n, pass.owed \ {pass.key}))
        /\ UNCHANGED <<impl, now, totalStrategiesCreated, probe>>

(***************************************************************************)
(* updateStrategyPerformance: the five-minute timer of super-agent.ts.     *)
(***************************************************************************)
updateStrategyPerformance ==
    /\ impl = "super-agent"
    /\ heap' = [o \in DOMAIN heap |->
                  IF heap[o].isActive /\ \E i \in 1..Len(strategies) : strategies[i][2] = o
                  THEN Refreshed(heap[o]) ELSE heap[o]]
    /\ emits' = <<>>
    /\ rpc' = NoRpc
    /\ ret' = NoRet
    /\ UNCHANGED <<impl, now, strategies, totalStrategiesCreated, tasks, probe>>

\* the operations called on the agent itself: the conversation layer rests
Quiet == UNCHANGED chatVars

Next ==
    \/ Tick /\ Quiet
    \/ \E target \in Targets : CreateStart(target) /\ Quiet
    \/ \E i \in Running, k \in RandomDraws, dep \in AllDeployResults :
          CreateFinish(i, dep, k) /\ Quiet
    \/ \E key \in Keys : Cancel(key) /\ Quiet
    \/ \E key \in Keys : CancelStart(key) /\ Quiet
    \/ \E i \in Running, env \in CancelEnvs : CancelFinish(i, env) /\ Quiet
    \/ List /\ Quiet
    \/ \E key \in Keys : CheckStart(key) /\ Quiet
    \/ \E i \in Running, f \in Fetches : CheckFinish(i, f) /\ Quiet
    \/ CheckAllStart /\ Quiet
    \/ \E i \in Running, f \in Fetches : CheckAllResume(i, f) /\ Quiet
    \/ PassStart /\ Quiet
    \/ \E i \in Running, f \in Fetches : PassResume(i, f) /\ Quiet
    \/ updateStrategyPerformance /\ Quiet

Spec == Init /\ [][Next]_vars

(***************************************************************************)
(* The address check on its own: Init draws the string, ValidateAddress    *)
(* applies isValidAddress to it.  The strings are a prefix followed by a   *)
(* run of one digit, with at most one character replaced.                  *)
(***************************************************************************)
Prefixes == {<<"0", "x">>, <<"0", "X">>, <<"x">>, <<"0">>, <<>>,
             <<" ", "0", "x">>, <<"0", "0", "x">>}

BodyLens == {0} \cup ((HexLen - 1)..(HexLen + ExtraLen))

Fills == {"1", "F"}

\* the string s with its i-th character replaced by c (i = 0: s itself)
Replaced(s, i, c) == [j \in 1..Len(s) |-> IF j = i THEN c ELSE s[j]]

AddressTexts ==
    {pre \o Replaced(Rep(fill, n), i, c) :
        pre \in Prefixes, fill \in Fills, n \in BodyLens,
        i \in 0..(HexLen + ExtraLen), c \in Alphabet}

InitAddr ==
    /\ impl = "super-agent"
    /\ now = 0
    /\ heap = <<>>
    /\ strategies = <<>>
    /\ totalStrategiesCreated = 0
    /\ tasks = <<>>
    /\ emits = <<>>
    /\ rpc = NoRpc
    /\ ret = NoRet
    /\ probe \in {[NoProbe EXCEPT !.kind = "address-in", !.text = s] : s \in AddressTexts}
    /\ conversationHistory = <<"system">>
    /\ chats = <<>>
    /\ reply = NoReply

ValidateAddress ==
    /\ probe.kind = "address-in"
    /\ probe' = [probe EXCEPT !.kind = "address", !.valid = isValidAddress(probe.text)]
    /\ UNCHANGED <<impl, now, heap, strategies, totalStrategiesCreated,
                   tasks, emits, rpc, ret, chatVars>>

NextAddr == ValidateAddress

SpecAddr == InitAddr /\ [][NextAddr]_vars

(***************************************************************************)
(* The health evaluation on its own: Init draws the class and the balance, *)
(* EvaluateHealth applies the evaluation the class's status check uses.    *)
(***************************************************************************)
HealthBalances ==
    (0..Spread)
    \cup ((Threshold - Spread)..(Threshold + Spread))
    \cup ((Threshold * 2 - Spread)..(Threshold * 2 + Spread))

InitHealth ==
    /\ impl \in Impls
    /\ now = 0
    /\ heap = <<>>
    /\ strategies = <<>>
    /\ totalStrategiesCreated = 0
    /\ tasks = <<>>
    /\ emits = <<>>
    /\ rpc = NoRpc
    /\ ret = NoRet
    /\ probe \in {[NoProbe EXCEPT !.kind = "health-in", !.balance = b] : b \in HealthBalances}
    /\ conversationHistory = <<"system">>
    /\ chats = <<>>
    /\ reply = NoReply

EvaluateHealth ==
    /\ probe.kind = "health-in"
    /\ probe' = [probe EXCEPT !.kind = "health", !.health = HealthOf(impl, probe.balance)]
    /\ UNCHANGED <<impl, now, heap, strategies, totalStrategiesCreated,
                   tasks, emits, rpc, ret, chatVars>>

NextHealth == EvaluateHealth

SpecHealth == InitHealth /\ [][NextHealth]_vars

(***************************************************************************)
(* Properties.                                                             *)
(***************************************************************************)
\* the step completes a create: the call's record is built and stored
CreateCompletes == PendingCreates' < PendingCreates

\* the record built last
Newest == heap[Len(heap)]

\* C1: every create that got past the format check completes by building
\* exactly one new record, switched on, and storing it under the id it
\* returns, whatever the deployment attempt came to; the attempt decides the
\* returned mode only (REAL_DEPLOYMENT when it returned, SIMULATION when it
\* threw, for any cause).
C1_CreateStoresOneActiveRecord ==
    [][CreateCompletes =>
        /\ ret'.op = "create" /\ ret'.success
        /\ Len(heap') = Len(heap) + 1
        /\ \A o \in DOMAIN heap : heap'[o] = heap[o]
        /\ heap'[Len(heap')].isActive
        /\ heap'[Len(heap')].id = ret'.key
        /\ MapGet(strategies', ret'.key) = Len(heap')
        /\ ret'.mode = (IF rpc'.err = "none" THEN "REAL_DEPLOYMENT" ELSE "SIMULATION")
      ]_vars

\* a create whose deployment was refused for lack of funds has stored its
\* record, switched on, and returned SIMULATION
C1_Witness ==
    /\ impl = "super-agent"
    /\ ret.op = "create" /\ ret.success /\ ret.mode = "SIMULATION"
    /\ rpc.kind = "deploy" /\ rpc.err = "insufficient"
    /\ HasKey(ret.key) /\ Stored(ret.key) = Newest /\ Newest.isActive

\* C2: every create that stores a record stores it under an id the store
\* did not hold, so that the store grows by one entry per create.
C2_IdsNeverReused ==
    [][CreateCompletes =>
        /\ ~HasKey(ret'.key)
        /\ Len(strategies') = Len(strategies) + 1
      ]_vars

\* C3: a stored record that is switched off stays switched off.
C3_InactiveStaysInactive ==
    [][\A key \in Keys :
          (HasKey(key) /\ ~Stored(key).isActive) => ~(Stored(key).isActive)'
      ]_vars

\* C4: a cancel of an id the store holds returns success and leaves the
\* stored record switched off; in index.ts a cancellation the chain did not
\* take shows as mode SIMULATION with the note and one it took as mode
\* REAL_CANCELLATION without it; in super-agent.ts nothing is sent to the
\* chain and the result carries no mode.
C4_CancelAlwaysSucceeds ==
    (ret.op = "cancel" /\ HasKey(ret.key)) =>
        /\ ret.success
        /\ ~Stored(ret.key).isActive
        /\ impl = "index" =>
              /\ rpc.kind = "cancel"
              /\ ret.mode = (IF rpc.ok THEN "REAL_CANCELLATION" ELSE "SIMULATION")
              /\ ret.note = ~rpc.ok
        /\ impl = "super-agent" =>
              /\ rpc.kind = "none"
              /\ ret.mode = "none" /\ ~ret.note

\* a cancel whose on-chain cancellation failed has returned success with
\* mode SIMULATION and the note, and the record is switched off
C4_Witness ==
    /\ impl = "index"
    /\ ret.op = "cancel" /\ ret.success
    /\ rpc.kind = "cancel" /\ ~rpc.ok
    /\ ret.mode = "SIMULATION" /\ ret.note
    /\ HasKey(ret.key) /\ ~Stored(ret.key).isActive

\* C5: a cancel of an id the store does not hold returns success = false
\* and leaves the store and every record object as they were.
C5_CancelUnknownId ==
    [][(ret'.op = "cancel" /\ ~HasKey(ret'.key)) =>
        /\ ~ret'.success
        /\ ret'.message = "Strategy not found"
        /\ heap' = heap
        /\ strategies' = strategies
      ]_vars

\* a cancel of an unknown id has been refused while the store holds a
\* record, which is still switched on
C5_Witness ==
    /\ ret.op = "cancel" /\ ~ret.success /\ ~HasKey(ret.key)
    /\ \E key \in Keys : HasKey(key) /\ Stored(key).isActive /\ Stored(key).lastChecked = now

\* C6: a cancel of an id whose stored record is already switched off does
\* not report a successful cancellation.
C6_SecondCancelReportsInactive ==
    [][(ret'.op = "cancel" /\ HasKey(ret'.key) /\ ~Stored(ret'.key).isActive)
          => ~ret'.success
      ]_vars

\* the three tiers: below_threshold/high under the threshold,
\* approaching_threshold/medium from it up to twice it, healthy/low from there
ThreeTier(balance) ==
    [status      |-> IF balance < Threshold THEN "below_threshold"
                     ELSE IF balance < 2 * Threshold THEN "approaching_threshold"
                     ELSE "healthy",
     urgency     |-> IF balance < Threshold THEN "high"
                     ELSE IF balance < 2 * Threshold THEN "medium"
                     ELSE "low",
     willTrigger |-> balance < Threshold]

\* C7: the evaluation a status check uses puts every balance in one of the
\* three tiers, with willTrigger exactly under the threshold.
C7_ThreeTierHealth ==
    probe.kind = "health" => probe.health = ThreeTier(probe.balance)

\* C8 as stated: a step of the monitoring pass whose balance fetch failed
\* emits exactly one strategyError notification, for that strategy.
C8_FailedFetchEmitsError ==
    (impl = "super-agent" /\ ret.op = "pass" /\ ~rpc.ok) =>
        emits = <<[type |-> "strategyError", key |-> ret.key]>>

\* C8 amended: a balance fetch that fails is answered with a made-up
\* balance under 100000000, so a step of the monitoring pass emits no
\* strategyError, refreshes lastChecked of the strategy it visited whether
\* the fetch failed or not, and the pass goes on to the next active strategy.
C8_PassRefreshesEveryVisited ==
    ret.op = "pass" =>
        LET p == KeyIndex(strategies, ret.key)
            n == NextActive(strategies, heap, p + 1)
        IN  /\ \A j \in 1..Len(emits) : emits[j].type # "strategyError"
            /\ p # 0
            /\ Stored(ret.key).lastChecked = now
            /\ ~rpc.ok => (rpc.balance >= 0 /\ rpc.balance < RandomBalanceRange)
            /\ n # 0 => \E i \in Running : tasks[i].op = "pass" /\ tasks[i].pos = n

\* the fetch for the first of two active strategies has failed: its
\* lastChecked is refreshed, and the pass is suspended at the second
C8_Witness ==
    /\ impl = "super-agent"
    /\ ret.op = "pass" /\ ~rpc.ok
    /\ KeyIndex(strategies, ret.key) = 1
    /\ Stored(ret.key).lastChecked = now
    /\ \E i \in Running : tasks[i].op = "pass" /\ tasks[i].pos = 2

\* C9: every record that was created and not cancelled is in the list that
\* listActive returns.
C9_ListedUntilCancelled ==
    ret.op = "list" =>
        \A o \in DOMAIN heap :
            heap[o].isActive =>
                \E j \in 1..Len(ret.list) :
                    /\ ret.list[j].id = heap[o].id
                    /\ ret.list[j].target = heap[o].target
                    /\ ret.list[j].createdAt = heap[o].createdAt

\* the characters 0-9, a-f and A-F
HexDigits == {"0", "1", "2", "3", "4", "5", "6", "7", "8", "9"}
             \cup {"a", "b", "c", "d", "e", "f"} \cup {"A", "B", "C", "D", "E", "F"}

\* 0x followed by exactly 64 hexadecimal characters
WellFormedAddress(s) ==
    /\ Len(s) = 2 + 64
    /\ s[1] = "0" /\ s[2] = "x"
    /\ \A j \in 3..Len(s) : s[j] \in HexDigits

\* C10: isValidAddress answers true exactly for the strings made of 0x and
\* exactly 64 characters in 0-9, a-f, A-F.
C10_AddressFormat ==
    probe.kind = "address" => (probe.valid <=> WellFormedAddress(probe.text))

\* an address of 64 digits, one of them an upper-case letter, has been
\* accepted
C10_Witness ==
    /\ probe.kind = "address" /\ probe.valid
    /\ \E j \in 3..Len(probe.text) : probe.text[j] = "A"
    /\ \E j \in 3..Len(probe.text) : probe.text[j] = "1"

\* C11: a create whose target address fails the format check stores no
\* record and reaches no call of the blockchain collaborator: every record
\* built, and every create suspended on the collaborator, has a target that
\* passes the format check.
C11_InvalidAddressRejected ==
    /\ \A o \in DOMAIN heap : heap[o].target \in ValidTargets
    /\ \A i \in Running : tasks[i].op = "create" => tasks[i].target \in ValidTargets

\* the stored record with its task id blanked
WithoutTaskId(s) == [s EXCEPT !.taskId = -1]

\* the stored record with its task id and its description blanked
WithoutTaskIdAndText(s) == [s EXCEPT !.taskId = -1, !.description = ""]

\* the returned mode and note tell how the deployment attempt ended
ModeTellsOutcome ==
    /\ ret.mode = (IF rpc.err = "none" THEN "REAL_DEPLOYMENT" ELSE "SIMULATION")
    /\ ret.note = (rpc.err # "none")

\* C12 as stated: a completed create returns SIMULATION with the note
\* exactly when the deployment attempt failed and REAL_DEPLOYMENT exactly
\* when it succeeded, and the stored record is, but for its task id, the
\* one a successful deployment stores.
C12_SameRecordEitherMode ==
    (ret.op = "create" /\ ret.success) =>
        /\ ModeTellsOutcome
        /\ WithoutTaskId(Stored(ret.key))
              = WithoutTaskId(DeployedStrategy(ret.key, Stored(ret.key).target, -1))

\* C12 amended: mode and note tell the outcome as stated; the stored record
\* is the same in both cases except for its task id (from the transaction
\* hash after a deployment, a random number under 10000 after a failure)
\* and, in super-agent.ts, its description ("Smart auto top-up" after a
\* deployment, "Simulated auto top-up" after a failure).
C12_ModeAndRecord ==
    (ret.op = "create" /\ ret.success) =>
        LET s == Stored(ret.key)
            real == rpc.err = "none"
        IN  /\ ModeTellsOutcome
            /\ WithoutTaskIdAndText(s)
                  = WithoutTaskIdAndText(DeployedStrategy(ret.key, s.target, -1))
            /\ s.taskId = ret.taskId
            /\ real => s.taskId \in {TaskIdOfHash(h) : h \in TxHashes}
            /\ ~real => s.taskId \in 0..(RandomTaskRange - 1)
            /\ s.description =
                  (IF impl = "index" THEN "Auto top-up"
                   ELSE IF real THEN "Smart auto top-up" ELSE "Simulated auto top-up")

\* a create whose transaction could not be sent has returned SIMULATION
\* with the note and stored a record described as simulated
C12_Witness ==
    /\ impl = "super-agent"
    /\ ret.op = "create" /\ ret.success
    /\ rpc.err = "send"
    /\ ret.mode = "SIMULATION" /\ ret.note
    /\ Stored(ret.key).description = "Simulated auto top-up"
    /\ Stored(ret.key).isActive

\* C13: a create that has stored a record has emitted exactly one
\* strategyCreated notification for it, whatever the mode it returns.
C13_CreatedNotifiedInBothModes ==
    (impl = "super-agent" /\ ret.op = "create" /\ ret.success) =>
        /\ HasKey(ret.key)
        /\ emits = <<[type |-> "strategyCreated", key |-> ret.key]>>

\* C14: the creation counter equals the number of records that creates
\* have stored.
C14_CounterCountsStoredRecords ==
    impl = "super-agent" => totalStrategiesCreated = Len(heap)

\* C17: the target and the creation time of the record stored under an id
\* never change, whatever operation takes the step.
C17_TargetAndCreatedAtFrozen ==
    [][\A key \in Keys :
          HasKey(key) =>
              /\ (Stored(key).target)' = Stored(key).target
              /\ (Stored(key).createdAt)' = Stored(key).createdAt
      ]_vars

\* C18 : a step of the monitoring pass of super-agent.ts emits one
\* lowBalanceAlert for the record it visited exactly when the balance it
\* got is under twice the threshold, and nothing otherwise (index.ts only
\* logs); lastChecked of the visited record is refreshed either way.
C18_AlertIffLow ==
    ret.op = "pass" =>
        /\ emits = (IF impl = "super-agent" /\ rpc.balance < 2 * Threshold
                    THEN <<[type |-> "lowBalanceAlert", key |-> ret.key]>>
                    ELSE <<>>)
        /\ Stored(ret.key).lastChecked = now

\* the pass has fetched exactly twice the threshold: no alert, and
\* lastChecked is refreshed
C18_Witness ==
    /\ impl = "super-agent"
    /\ ret.op = "pass" /\ rpc.ok /\ rpc.balance = 2 * Threshold
    /\ emits = <<>>
    /\ Stored(ret.key).lastChecked = now

C20_OnePassAtATime ==
    Cardinality({i \in Running : tasks[i].op = "pass"}) <= 1

(***************************************************************************)
(* The conversation layer: the CLI's line handler calls chat, chat asks    *)
(* the language model, dispatches the function the model names, and asks   *)
(* the model again for the final text.  The private operations of the      *)
(* agent are reached through this layer only.                              *)
(***************************************************************************)
\* chat calls suspended at the same time
MaxChats == 2
\* user messages handled in all
MaxLines == 3

\* the function names handleFunctionCall knows
KnownFunctions(im) ==
    {"create_auto_topup_strategy", "cancel_automation_strategy",
     "list_active_strategies", "check_strategy_status"}
    \cup (IF im = "super-agent" THEN {"show_analytics"} ELSE {})

\* a function name the language model may give that no class knows
OtherFunctions == {"transfer_funds"}

\* a suspended chat call: where it waits, and the function it dispatched
\* (wrote is not in the program: it records that the operation of this call
\* has changed the store)
Chat(phase, fn, key, target) ==
    [phase |-> phase, fn |-> fn, key |-> key, target |-> target, wrote |-> FALSE]

\* the user messages pushed so far
Lines == Cardinality({j \in 1..Len(conversationHistory) : conversationHistory[j] = "user"})

\* the chat calls, by position
Chatting == 1..Len(chats)

\* a step of the conversation layer that calls no operation of the agent
Rest ==
    /\ emits' = <<>>
    /\ rpc' = NoRpc
    /\ ret' = NoRet
    /\ UNCHANGED <<impl, now, heap, strategies, totalStrategiesCreated, tasks, probe>>

\* a catch block that lets the error out to the caller
BadHandleChatError(cause) == [kind |-> "error", cause |-> cause, raised |-> TRUE]

\* chat's catch block: the error is turned into the text that is returned
handleChatError(cause) == [kind |-> "error", cause |-> cause, raised |-> FALSE]

\* the result object holds a record with totalTransferred: BigInt(0), which
\* JSON.stringify refuses
CarriesBigInt(r) ==
    /\ impl = "super-agent"
    /\ r.success
    /\ \/ r.op \in {"create", "check"}
       \/ r.op = "checkAll" /\ r.count > 0

\* chat() up to the first request to the language model
ChatBegin ==
    /\ Len(chats) < MaxChats
    /\ Lines < MaxLines
    /\ conversationHistory' = Append(conversationHistory, "user")
    /\ chats' = Append(chats, Chat("llm", "", -1, ""))
    /\ reply' = NoReply
    /\ Rest

\* the CLI's 'line' handler, for a line that is no built-in command
Line == ChatBegin

\* the chat call c ends in the catch block
ChatFails(c, cause) ==
    /\ chats' = Remove(chats, c)
    /\ reply' = handleChatError(cause)

\* the first request to the language model threw
ChatLlmFails(c) ==
    /\ chats[c].phase = "llm"
    /\ ChatFails(c, "llm")
    /\ UNCHANGED conversationHistory
    /\ Rest

\* the language model answered with text and no function call
ChatAnswersText(c) ==
    /\ chats[c].phase = "llm"
    /\ conversationHistory' = Append(conversationHistory, "assistant")
    /\ chats' = Remove(chats, c)
    /\ reply' = [kind |-> "text", cause |-> "none", raised |-> FALSE]
    /\ Rest

\* the language model named a function with arguments JSON.parse refuses
ChatBadArguments(c) ==
    /\ chats[c].phase = "llm"
    /\ ChatFails(c, "parse")
    /\ UNCHANGED conversationHistory
    /\ Rest

\* the language model named a function the switch does not know
ChatUnknownFunction(c, fn) ==
    /\ chats[c].phase = "llm"
    /\ fn \notin KnownFunctions(impl)
    /\ ChatFails(c, "unknown_function")
    /\ UNCHANGED conversationHistory
    /\ Rest

\* after handleFunctionCall was entered: the operation is suspended (it
\* has returned nothing yet), or it has returned and its result is pushed,
\* which fails when the result cannot be serialized
AfterFunction(c, fn, key, target) ==
    IF ret'.op = "none"
    THEN /\ chats' = [chats EXCEPT ![c] = Chat("op", fn, key, target)]
         /\ reply' = NoReply
         /\ UNCHANGED conversationHistory
    ELSE IF CarriesBigInt(ret')
    THEN /\ conversationHistory' = Append(conversationHistory, "assistant-call")
         /\ ChatFails(c, "serialize")
    ELSE /\ conversationHistory' = conversationHistory \o <<"assistant-call", "function">>
         /\ chats' = [chats EXCEPT ![c] =
                          [Chat("final", fn, key, target) EXCEPT
                              !.wrote = (heap' # heap \/ strategies' # strategies)]]
         /\ reply' = NoReply

ChatCallsCreate(c, target) ==
    /\ chats[c].phase = "llm"
    /\ CreateStart(target)
    /\ AfterFunction(c, "create", now, target)

ChatCallsCancel(c, key) ==
    /\ chats[c].phase = "llm"
    /\ Cancel(key) \/ CancelStart(key)
    /\ AfterFunction(c, "cancel", key, "")

ChatCallsList(c) ==
    /\ chats[c].phase = "llm"
    /\ List
    /\ AfterFunction(c, "list", -1, "")

ChatCallsCheck(c, key) ==
    /\ chats[c].phase = "llm"
    /\ CheckStart(key)
    /\ AfterFunction(c, "check", key, "")

ChatCallsCheckAll(c) ==
    /\ chats[c].phase = "llm"
    /\ CheckAllStart
    /\ AfterFunction(c, "checkAll", -1, "")

\* generateAnalytics: reads the store and returns numbers
ChatCallsAnalytics(c) ==
    /\ chats[c].phase = "llm"
    /\ "show_analytics" \in KnownFunctions(impl)
    /\ ret' = [NoRet EXCEPT !.op = "analytics", !.success = TRUE]
    /\ emits' = <<>>
    /\ rpc' = NoRpc
    /\ UNCHANGED <<impl, now, heap, strategies, totalStrategiesCreated, tasks, probe>>
    /\ AfterFunction(c, "analytics", -1, "")

\* the chat call c waits for the suspended operation i
Awaits(c, i) ==
    /\ chats[c].phase = "op"
    /\ chats[c].fn = tasks[i].op
    /\ chats[c].fn \in {"create", "cancel", "check"} => chats[c].key = tasks[i].key
    /\ chats[c].fn = "create" => chats[c].target = tasks[i].target

ChatCreateReturns(c, i, dep, k) ==
    /\ Awaits(c, i)
    /\ CreateFinish(i, dep, k)
    /\ AfterFunction(c, chats[c].fn, chats[c].key, chats[c].target)

ChatCancelReturns(c, i, env) ==
    /\ Awaits(c, i)
    /\ CancelFinish(i, env)
    /\ AfterFunction(c, chats[c].fn, chats[c].key, chats[c].target)

ChatCheckReturns(c, i, f) ==
    /\ Awaits(c, i)
    /\ CheckFinish(i, f)
    /\ AfterFunction(c, chats[c].fn, chats[c].key, chats[c].target)

ChatCheckAllResumes(c, i, f) ==
    /\ Awaits(c, i)
    /\ CheckAllResume(i, f)
    /\ AfterFunction(c, chats[c].fn, chats[c].key, chats[c].target)

\* the second request to the language model returned (ok) or threw
ChatFinal(c, ok) ==
    /\ chats[c].phase = "final"
    /\ IF ok
       THEN /\ conversationHistory' = Append(conversationHistory, "assistant")
            /\ chats' = Remove(chats, c)
            /\ reply' = [kind |-> "text", cause |-> "none", raised |-> FALSE]
       ELSE /\ ChatFails(c, "final_llm")
            /\ UNCHANGED conversationHistory
    /\ Rest

NextChat ==
    \/ Tick /\ Quiet
    \/ Line
    \/ \E c \in Chatting : ChatLlmFails(c)
    \/ \E c \in Chatting : ChatAnswersText(c)
    \/ \E c \in Chatting : ChatBadArguments(c)
    \/ \E c \in Chatting, fn \in OtherFunctions \cup {"show_analytics"} :
          ChatUnknownFunction(c, fn)
    \/ \E c \in Chatting, target \in Targets : ChatCallsCreate(c, target)
    \/ \E c \in Chatting, key \in Keys : ChatCallsCancel(c, key)
    \/ \E c \in Chatting : ChatCallsList(c)
    \/ \E c \in Chatting, key \in Keys : ChatCallsCheck(c, key)
    \/ \E c \in Chatting : ChatCallsCheckAll(c)
    \/ \E c \in Chatting : ChatCallsAnalytics(c)
    \/ \E c \in Chatting, i \in Running, k \in RandomDraws, dep \in AllDeployResults :
          ChatCreateReturns(c, i, dep, k)
    \/ \E c \in Chatting, i \in Running, env \in CancelEnvs : ChatCancelReturns(c, i, env)
    \/ \E c \in Chatting, i \in Running, f \in Fetches : ChatCheckReturns(c, i, f)
    \/ \E c \in Chatting, i \in Running, f \in Fetches : ChatCheckAllResumes(c, i, f)
    \/ \E c \in Chatting, ok \in BOOLEAN : ChatFinal(c, ok)

SpecChat == Init /\ [][NextChat]_vars

\* C15: every failure inside chat (a request to the language model, the
\* parsing of the call's arguments, the dispatch, the pushing of the result)
\* ends the call with an error text that is returned, never raised; when the
\* function named is one the switch does not know, the records, the store,
\* the counter, the suspended operations and the history are what they were,
\* and the call is over, so the next message finds the agent as it was.
C15_ChatNeverRaises ==
    [][ /\ ~reply'.raised
        /\ Len(chats') < Len(chats) =>
              /\ Len(chats') = Len(chats) - 1
              /\ reply'.kind \in {"text", "error"}
              /\ reply'.cause = "unknown_function" =>
                    /\ reply'.kind = "error"
                    /\ heap' = heap
                    /\ strategies' = strategies
                    /\ totalStrategiesCreated' = totalStrategiesCreated
                    /\ tasks' = tasks
                    /\ conversationHistory' = conversationHistory
      ]_vars

\* an unknown function was named while the store holds a record and one
\* more message can still be sent
C15_Witness ==
    /\ reply.kind = "error"
    /\ reply.cause = "unknown_function"
    /\ Len(strategies) > 0
    /\ Lines < MaxLines

\* C16: no line is taken up by the line handler while the chat call of an
\* earlier line is still suspended.
C16_OneMessageAtATime == Len(chats) <= 1

(***************************************************************************)
(* The monitoring passes next to the operations that change the store:     *)
(* creates and cancels while passes are suspended.  The run starts from a  *)
(* store that two creates, one clock reading apart, have filled in         *)
(* simulation mode; the clock stands at its bound, so that every later     *)
(* create reads the id of the second record.                               *)
(***************************************************************************)
\* record objects ever built
MaxPassStrategies == 3

\* the record a create of clock reading key stored in simulation mode
StoredAt(key, target) ==
    [id |-> key, target |-> target, taskId |-> RandomBelow(0, RandomTaskRange),
     isActive |-> TRUE, createdAt |-> key, lastChecked |-> -1,
     description |-> IF impl = "super-agent" THEN "Simulated auto top-up" ELSE "Auto top-up"]

InitPass ==
    /\ impl \in Impls
    /\ now = MaxClock
    /\ \E a \in ValidTargets :
          heap = <<StoredAt(MaxClock - 1, a), StoredAt(MaxClock, a)>>
    /\ strategies = <<<<MaxClock - 1, 1>>, <<MaxClock, 2>>>>
    /\ totalStrategiesCreated = 0
    /\ tasks = <<>>
    /\ emits = <<>>
    /\ rpc = NoRpc
    /\ ret = NoRet
    /\ probe = NoProbe
    /\ conversationHistory = <<"system">>
    /\ chats = <<>>
    /\ reply = NoReply

NextPass ==
    \/ \E target \in Targets : CreateStartWithin(target, MaxPassStrategies) /\ Quiet
    \/ \E i \in Running, k \in RandomDraws, dep \in AllDeployResults :
          CreateFinish(i, dep, k) /\ Quiet
    \/ \E key \in Keys : Cancel(key) /\ Quiet
    \/ \E key \in Keys : CancelStart(key) /\ Quiet
    \/ \E i \in Running, env \in CancelEnvs : CancelFinish(i, env) /\ Quiet
    \/ PassStart /\ Quiet
    \/ \E i \in Running, f \in Fetches : PassResume(i, f) /\ Quiet

SpecPass == InitPass /\ [][NextPass]_vars

\* the pass at position i of the suspended operations ends in this step
PassEnds(i, f) ==
    /\ i \in Running
    /\ tasks[i].op = "pass"
    /\ PassResume(i, f)
    /\ Len(tasks') < Len(tasks)

\* C21: when a monitoring pass ends, every id that held an active record
\* when the pass started and that was not cancelled while the pass ran has
\* been visited by that pass, whatever was created or cancelled meanwhile.
C21_PassVisitsEveryActive ==
    [][ \A i \in 1..MaxInFlight, f \in Fetches :
            PassEnds(i, f) => tasks[i].owed \subseteq {tasks[i].key} ]_vars

(***************************************************************************)
(* deployRealAutomation on its own: Init draws the answers of the          *)
(* collaborator, AttemptDeploy applies the method to them.                 *)
(***************************************************************************)
NoDeploy == [err |-> "pending", submitted |-> FALSE, taskId |-> -1]

InitDeploy ==
    /\ impl \in Impls
    /\ now = 0
    /\ heap = <<>>
    /\ strategies = <<>>
    /\ totalStrategiesCreated = 0
    /\ tasks = <<>>
    /\ emits = <<>>
    /\ rpc = NoRpc
    /\ ret = NoRet
    /\ probe \in [kind : {"deploy"}, env : DeployEnvs(FALSE), out : {NoDeploy}]
    /\ conversationHistory = <<"system">>
    /\ chats = <<>>
    /\ reply = NoReply

AttemptDeploy ==
    /\ probe.kind = "deploy"
    /\ probe' = [probe EXCEPT !.kind = "deployed",
                              !.out = deployRealAutomation(impl, probe.env)]
    /\ UNCHANGED <<impl, now, heap, strategies, totalStrategiesCreated, tasks,
                   emits, rpc, ret, chatVars>>

NextDeploy == AttemptDeploy

SpecDeploy == InitDeploy /\ [][NextDeploy]_vars

\* the fee cap as stated: three times the estimate when the query answered
\* with a value, the default otherwise
StatedFeeCap(fee) == IF fee >= 1 THEN FeeMultiplier * fee ELSE DefaultFeeCapSuper

\* C22: a deployment attempt submits the registration transaction only if
\* the sender's balance, as read in that attempt, is at least the fee cap
\* plus the buffer; with a lower balance nothing is submitted and the
\* attempt throws, so that create falls back to simulation.
C22_SubmitOnlyWhenFunded ==
    probe.kind = "deployed" =>
        LET need == StatedFeeCap(probe.env.fee) + BufferAmount
        IN  /\ probe.out.submitted => probe.env.bal >= need
            /\ probe.env.bal < need =>
                  /\ ~probe.out.submitted
                  /\ probe.out.err # "none"

\* C23: a record stored by a create that fell back to simulation carries no
\* task id; the record a create has just stored has one only when the create
\* returned REAL_DEPLOYMENT after the chain accepted its transaction.
C23_SimulatedHasNoTaskId ==
    (ret.op = "create" /\ ret.success) =>
        (Newest.taskId # -1 => (ret.mode = "REAL_DEPLOYMENT" /\ rpc.submitted))

\* C24: a cancel that succeeds has first tried to submit a cancellation
\* transaction naming the task id of the stored record; the record is marked
\* inactive after the chain accepted it, or locally once the attempt failed.
C24_CancelSubmitsFirst ==
    (ret.op = "cancel" /\ ret.success) =>
        /\ rpc.kind = "cancel"
        /\ rpc.taskId = Stored(ret.key).taskId
        /\ ~Stored(ret.key).isActive
        /\ rpc.submitted \/ ret.mode = "SIMULATION"

\* C25: the lastChecked of the record stored under an id changes only in a
\* step of a monitoring pass over that id or of a status check of it.
C25_LastCheckedOnlyByChecks ==
    [][ \A key \in Keys :
          (/\ HasKey(key)
           /\ heap'[MapGet(strategies', key)].lastChecked # Stored(key).lastChecked)
          => (ret'.op \in {"pass", "check", "checkAll"} /\ ret'.key = key) ]_vars

\* C26: when the collaborator's balance call fails, the caller is handed a
\* made-up balance and goes on: a status check of one strategy returns
\* success with the evaluation of that balance, a status check of all
\* strategies returns success or is suspended at the next strategy, a
\* monitoring pass refreshes the record and reports no error.
C26_FailedFetchAnswered ==
    (rpc.kind = "balance" /\ ~rpc.ok) =>
        /\ rpc.balance \in 0..(RandomBalanceRange - 1)
        /\ ret.message # "Failed to check strategy status"
        /\ ret.op \in {"check", "checkAll", "pass", "none"}
        /\ ret.op = "check" => (ret.success /\ ret.health = HealthOf(impl, rpc.balance))
        /\ ret.op = "checkAll" => (ret.success /\ ret.count > 0)
        /\ ret.op = "none" => \E i \in Running : tasks[i].op = "checkAll" /\ tasks[i].count > 0
        /\ ret.op = "pass" =>
              /\ Stored(ret.key).lastChecked = now
              /\ \A j \in 1..Len(emits) : emits[j].type # "strategyError"

\* a status check of one strategy has returned success although its
\* balance call failed
C26_Witness ==
    /\ rpc.kind = "balance" /\ ~rpc.ok
    /\ ret.op = "check" /\ ret.success
    /\ ret.health.willTrigger

\* C30: the balance made up for a failed balance call is at least 0 and
\* below 100000000, hence below the threshold: the status check that asked
\* for it reports willTrigger, and the monitoring pass that asked for it
\* emits lowBalanceAlert for the strategy (super-agent.ts; the class of
\* index.ts has no events and prints the warning).
C30_SyntheticBalanceIsLow ==
    /\ RandomBalanceRange - 1 < Threshold
    /\ (rpc.kind = "balance" /\ ~rpc.ok) =>
          /\ rpc.balance >= 0
          /\ rpc.balance <= RandomBalanceRange - 1
          /\ rpc.balance < Threshold
          /\ ret.op \in {"check", "checkAll"} /\ ret.success => ret.health.willTrigger
          /\ (ret.op = "pass" /\ impl = "super-agent") =>
                emits = <<[type |-> "lowBalanceAlert", key |-> ret.key]>>

\* a monitoring pass whose balance call failed has emitted the alert
C30_Witness ==
    /\ impl = "super-agent"
    /\ rpc.kind = "balance" /\ ~rpc.ok
    /\ ret.op = "pass"
    /\ emits = <<[type |-> "lowBalanceAlert", key |-> ret.key]>>

\* C27: in the transcript every function-call entry is followed at once by
\* its result entry, whatever other chat calls were pushing meanwhile; the
\* pair is pushed after the operation returned and before the final reply
\* is requested.
C27_CallNextToResult ==
    /\ \A j \in 1..Len(conversationHistory) :
          conversationHistory[j] = "assistant-call" =>
              /\ j < Len(conversationHistory)
              /\ conversationHistory[j + 1] = "function"
    /\ \A c \in Chatting :
          chats[c].phase = "final" =>
              \E j \in 2..Len(conversationHistory) :
                  /\ conversationHistory[j - 1] = "assistant-call"
                  /\ conversationHistory[j] = "function"

\* C28: a create whose registration transaction the chain accepted returns
\* REAL_DEPLOYMENT and stores a record whose task id comes from the hash of
\* that transaction, whatever fails afterwards in the same create.
C28_AcceptedMeansReal ==
    (ret.op = "create" /\ ret.success /\ rpc.kind = "deploy" /\ rpc.submitted) =>
        /\ ret.mode = "REAL_DEPLOYMENT"
        /\ Newest.taskId \in {TaskIdOfHash(h) : h \in TxHashes}

\* C29: a chat call that ends with the error reply has left the store as it
\* was: neither the step that ends it nor the operation it ran before has
\* changed a record or an entry.
C29_ErrorTurnLeavesStore ==
    [][ (Len(chats') < Len(chats) /\ reply'.kind = "error") =>
            /\ heap' = heap
            /\ strategies' = strategies
            /\ \A c \in Chatting : chats' = Remove(chats, c) => ~chats[c].wrote ]_vars

====
